---- MODULE Spec2Model ----
(***************************************************************************)
(* Model of the TMDB movie data pipeline: the cleaning stages of           *)
(* scripts/clean_data.py and the KPI engine of scripts/kpi_analysis.py.    *)
(*                                                                         *)
(* A table (pandas DataFrame) is a column list `cols` and a sequence of    *)
(* rows; a row carries its index label `idx` and its cells, a function     *)
(* from column name to cell.  A cell is the missing marker NaN, a number   *)
(* Num(n, d) standing for the rational n/d, or a string Str(s) whose       *)
(* text s is a sequence of characters.                                     *)
(***************************************************************************)
EXTENDS Integers, Sequences, FiniteSets, TLC

VARIABLES
    pc,        \* position of the cleaning pipeline
    cols,      \* column list of the table being cleaned
    df,        \* rows of the table being cleaned
    raw,       \* the table handed to replace_unrealistic_values (the input)
    kdf,       \* table handed to the KPI engine
    kpis,      \* result of get_kpis
    ranked,    \* last call of rank_movies: arguments and result
    directors, \* result of director_success
    ecol,      \* column handed to extract_json_field
    ekey,      \* extraction key
    eout       \* column after extract_json_field

vars == <<pc, cols, df, raw, kdf, kpis, ranked, directors, ecol, ekey, eout>>

cleanVars == <<pc, cols, df, raw>>
kpiVars == <<kdf, kpis, ranked, directors>>
extractVars == <<ecol, ekey, eout>>

----------------------------------------------------------------------------
(* Cells *)

NaN == [t |-> "nan"]
Num(n, d) == [t |-> "num", n |-> n, d |-> d]
Str(s) == [t |-> "str", s |-> s]

IsNa(c) == c.t = "nan"
NotNa(c) == c.t # "nan"
IsNum(c) == c.t = "num"

\* pandas  series == 0
EqZero(c) == IsNum(c) /\ c.n = 0

\* pandas  series >= k  (comparison with NaN is False)
GeInt(c, k) == IsNum(c) /\ c.n >= k * c.d

RECURSIVE Gcd(_, _)
Gcd(a, b) == IF b = 0 THEN a ELSE Gcd(b, a % b)

Abs(n) == IF n < 0 THEN -n ELSE n

\* the number n/d (d > 0) in lowest terms, so that equal numbers are equal cells
Frac(n, d) == LET g == Gcd(Abs(n), d) IN Num(n \div g, d \div g)

\* series / k   (NaN stays NaN)
DivBy(c, k) == IF IsNum(c) THEN Frac(c.n, c.d * k) ELSE NaN

\* a - b on cells; NaN when an operand is NaN
Minus(a, b) == IF IsNum(a) /\ IsNum(b) THEN Frac(a.n * b.d - b.n * a.d, a.d * b.d) ELSE NaN

\* a / b on cells for a positive b; NaN when an operand is NaN
Quot(a, b) == IF IsNum(a) /\ IsNum(b) THEN Frac(a.n * b.d, a.d * b.n) ELSE NaN

\* numeric order of two numbers (denominators are positive)
NumLt(a, b) == a.n * b.d < b.n * a.d
NumEq(a, b) == a.n * b.d = b.n * a.d

----------------------------------------------------------------------------
(* Strings *)

UpperChar(c) ==
    CASE c = "a" -> "A" [] c = "b" -> "B" [] c = "c" -> "C" [] c = "d" -> "D"
      [] c = "e" -> "E" [] c = "f" -> "F" [] c = "g" -> "G" [] c = "h" -> "H"
      [] c = "i" -> "I" [] c = "j" -> "J" [] c = "k" -> "K" [] c = "l" -> "L"
      [] c = "m" -> "M" [] c = "n" -> "N" [] c = "o" -> "O" [] c = "p" -> "P"
      [] c = "q" -> "Q" [] c = "r" -> "R" [] c = "s" -> "S" [] c = "t" -> "T"
      [] c = "u" -> "U" [] c = "v" -> "V" [] c = "w" -> "W" [] c = "x" -> "X"
      [] c = "y" -> "Y" [] c = "z" -> "Z" [] OTHER -> c

Upper(s) == [i \in 1..Len(s) |-> UpperChar(s[i])]

Released == <<"R", "e", "l", "e", "a", "s", "e", "d">>
ReleasedLower == <<"r", "e", "l", "e", "a", "s", "e", "d">>
NoTagline == <<"N", "o", " ", "T", "a", "g", "l", "i", "n", "e">>
NoDataMixed == <<"N", "o", " ", "d", "a", "t", "a">>
SomeText == <<"H", "i">>

\* the list of clean_text_placeholders
Placeholders ==
    { <<"N", "O", " ", "T", "A", "G", "L", "I", "N", "E">>,
      <<"N", "O", " ", "O", "V", "E", "R", "V", "I", "E", "W">>,
      <<"N", "O", " ", "D", "A", "T", "A">>,
      <<>> }

----------------------------------------------------------------------------
(* Tables *)

Range(s) == {s[i] : i \in 1..Len(s)}

\* df.drop(columns=S)
DropColumns(cs, S) == SelectSeq(cs, LAMBDA c : c \notin S)

Restrict(f, S) == [c \in S |-> f[c]]

\* the cells of a row with column c set to v (the column is added when new)
WithCell(cells, c, v) ==
    [x \in (DOMAIN cells) \cup {c} |-> IF x = c THEN v ELSE cells[x]]

MapRows(rows, F(_)) == [i \in 1..Len(rows) |-> [rows[i] EXCEPT !.cells = F(rows[i].cells)]]

\* row.notna().sum()
NonNaCount(cells, cs) == Cardinality({c \in Range(cs) : NotNa(cells[c])})

----------------------------------------------------------------------------
(* Placeholder Normalizer: replace_unrealistic_values and its four steps. *)
(* A table is a record [cols, rows].                                       *)

Table(cs, rows) == [cols |-> cs, rows |-> rows]

ZeroToNaN(cells, c) == IF EqZero(cells[c]) THEN NaN ELSE cells[c]

\* mutant: the revenue column is forgotten
replace_zero_values_budget_only(T) ==
    Table(T.cols,
          MapRows(T.rows, LAMBDA cells :
              [c \in DOMAIN cells |->
                  IF c \in {"budget", "runtime"}
                  THEN ZeroToNaN(cells, c) ELSE cells[c]]))

replace_zero_values(T) ==
    Table(T.cols,
          MapRows(T.rows, LAMBDA cells :
              [c \in DOMAIN cells |->
                  IF c \in {"budget", "revenue", "runtime"}
                  THEN ZeroToNaN(cells, c) ELSE cells[c]]))

Million == 1000000

convert_budget_to_millions(T) ==
    LET added == SelectSeq(<<"budget_musd", "revenue_musd">>,
                           LAMBDA c : c \notin Range(T.cols))
        newCols == DropColumns(T.cols \o added, {"budget", "revenue"})
    IN Table(newCols,
             MapRows(T.rows, LAMBDA cells :
                 Restrict(
                     WithCell(WithCell(cells, "budget_musd", DivBy(cells["budget"], Million)),
                              "revenue_musd", DivBy(cells["revenue"], Million)),
                     Range(newCols))))

IsPlaceholder(c) == c.t = "str" /\ Upper(c.s) \in Placeholders

clean_text_placeholders(T) ==
    Table(T.cols,
          MapRows(T.rows, LAMBDA cells :
              [c \in DOMAIN cells |->
                  IF c \in {"tagline", "overview"} /\ IsPlaceholder(cells[c])
                  THEN NaN ELSE cells[c]]))

\* mutant: the mask tests vote_average instead of vote_count
adjust_vote_average_wrong_mask(T) ==
    IF "vote_count" \in Range(T.cols) /\ "vote_average" \in Range(T.cols)
    THEN Table(T.cols,
               MapRows(T.rows, LAMBDA cells :
                   IF EqZero(cells["vote_average"])
                   THEN [cells EXCEPT !["vote_average"] = NaN] ELSE cells))
    ELSE T

adjust_vote_average(T) ==
    IF "vote_count" \in Range(T.cols) /\ "vote_average" \in Range(T.cols)
    THEN Table(T.cols,
               MapRows(T.rows, LAMBDA cells :
                   IF EqZero(cells["vote_count"])
                   THEN [cells EXCEPT !["vote_average"] = NaN] ELSE cells))
    ELSE T

replace_unrealistic_values(T) ==
    adjust_vote_average(clean_text_placeholders(convert_budget_to_millions(replace_zero_values(T))))

----------------------------------------------------------------------------
(* Row Filter: removing_na_and_duplicates and its four steps. *)

\* rows[i] for the i where Keep(i) holds, in order (boolean-mask selection)
KeepAt(rows, Keep(_)) ==
    LET F[i \in 0..Len(rows)] ==
            IF i = 0 THEN <<>>
            ELSE IF Keep(i) THEN Append(F[i - 1], rows[i]) ELSE F[i - 1]
    IN F[Len(rows)]

\* mutant: duplicates are whole rows even when there is an id column
remove_duplicates_whole_rows(T) ==
    Table(T.cols,
          KeepAt(T.rows, LAMBDA i :
              \A j \in 1..(i - 1) : T.rows[j].cells # T.rows[i].cells))

\* mutant: the last occurrence of an id is kept (keep='last')
remove_duplicates_keep_last(T) ==
    IF "id" \in Range(T.cols)
    THEN Table(T.cols,
               KeepAt(T.rows, LAMBDA i :
                   \A j \in (i + 1)..Len(T.rows) :
                       T.rows[j].cells["id"] # T.rows[i].cells["id"]))
    ELSE Table(T.cols,
               KeepAt(T.rows, LAMBDA i :
                   \A j \in (i + 1)..Len(T.rows) : T.rows[j].cells # T.rows[i].cells))

remove_duplicates(T) ==
    IF "id" \in Range(T.cols)
    THEN Table(T.cols,
               KeepAt(T.rows, LAMBDA i :
                   \A j \in 1..(i - 1) : T.rows[j].cells["id"] # T.rows[i].cells["id"]))
    ELSE Table(T.cols,
               KeepAt(T.rows, LAMBDA i :
                   \A j \in 1..(i - 1) : T.rows[j].cells # T.rows[i].cells))

drop_rows_with_na_in_critical_columns(T, critical_columns) ==
    Table(T.cols,
          KeepAt(T.rows, LAMBDA i :
              \A c \in critical_columns : NotNa(T.rows[i].cells[c])))

MinNonNan == 10

\* mutant: the threshold is off by one
keep_rows_with_min_non_nan_off_by_one(T, min_non_nan) ==
    Table(T.cols,
          KeepAt(T.rows, LAMBDA i : NonNaCount(T.rows[i].cells, T.cols) >= min_non_nan - 1))

keep_rows_with_min_non_nan(T, min_non_nan) ==
    Table(T.cols,
          KeepAt(T.rows, LAMBDA i : NonNaCount(T.rows[i].cells, T.cols) >= min_non_nan))

\* mutant: the status is compared ignoring case
filter_released_movies_ignore_case(T) ==
    IF "status" \in Range(T.cols)
    THEN LET newCols == DropColumns(T.cols, {"status"})
             kept == KeepAt(T.rows, LAMBDA i :
                        /\ T.rows[i].cells["status"].t = "str"
                        /\ Upper(T.rows[i].cells["status"].s) = Upper(Released))
         IN Table(newCols, MapRows(kept, LAMBDA cells : Restrict(cells, Range(newCols))))
    ELSE T

filter_released_movies(T) ==
    IF "status" \in Range(T.cols)
    THEN LET newCols == DropColumns(T.cols, {"status"})
             kept == KeepAt(T.rows, LAMBDA i : T.rows[i].cells["status"] = Str(Released))
         IN Table(newCols, MapRows(kept, LAMBDA cells : Restrict(cells, Range(newCols))))
    ELSE T

CriticalColumns == {"title", "id"}

removing_na_and_duplicates(T) ==
    filter_released_movies(
        keep_rows_with_min_non_nan(
            drop_rows_with_na_in_critical_columns(remove_duplicates(T), CriticalColumns),
            MinNonNan))

----------------------------------------------------------------------------
(* Finalizer *)

DesiredOrder ==
    <<"id", "title", "tagline", "release_date", "genres", "belongs_to_collection",
      "original_language", "budget_musd", "revenue_musd", "production_companies",
      "production_countries", "vote_count", "vote_average", "popularity", "runtime",
      "overview", "spoken_languages", "poster_path", "cast", "cast_size", "director",
      "crew_size">>

reorder_columns(T, desired_order) ==
    LET existing_columns == SelectSeq(desired_order, LAMBDA c : c \in Range(T.cols))
        remaining_columns == SelectSeq(T.cols, LAMBDA c : c \notin Range(existing_columns))
    IN Table(existing_columns \o remaining_columns, T.rows)

\* df.reset_index(drop=True): a dense 0-based index in current row order
reset_index(T) ==
    Table(T.cols, [i \in 1..Len(T.rows) |-> [T.rows[i] EXCEPT !.idx = i - 1]])

finalize_dataframe(T) == reset_index(reorder_columns(T, DesiredOrder))

----------------------------------------------------------------------------
(* Input tables of the cleaning pipeline: the state after clean_movie_data, *)
(* where the numeric columns hold numbers or NaN.                           *)

MaxRows == 2

StatusColumn == <<"status">>

\* columns the normalizer and the row filter never look at by name
FillerColumns ==
    <<"cast_size", "crew_size", "popularity", "original_language", "release_date",
      "genres", "production_companies", "production_countries", "spoken_languages",
      "poster_path", "cast", "director", "belongs_to_collection">>

NamedColumns ==
    <<"id", "title", "tagline", "overview", "budget", "revenue", "runtime",
      "vote_count", "vote_average">>

InputColumns(hasStatus) ==
    NamedColumns \o (IF hasStatus THEN StatusColumn ELSE <<>>) \o FillerColumns

FillerIndex(c) == CHOOSE i \in 1..Len(FillerColumns) : FillerColumns[i] = c

\* the cells of one input row: p gives the named columns, the first p.nfill
\* filler columns hold a value and the others are missing
MakeCells(p, cs) ==
    [c \in Range(cs) |->
        IF c \in Range(NamedColumns) \cup Range(StatusColumn) THEN p[c]
        ELSE IF FillerIndex(c) <= p.nfill THEN Str(<<"x">>) ELSE NaN]

BaseRow ==
    [id |-> Num(1, 1), title |-> Str(<<"T">>), tagline |-> NaN, overview |-> NaN,
     budget |-> Num(20000000, 1), revenue |-> Num(40000000, 1), runtime |-> Num(120, 1),
     vote_count |-> Num(15, 1), vote_average |-> Num(7, 1), status |-> Str(Released),
     nfill |-> 5]

IdCells == {NaN, Num(1, 1), Num(2, 1)}
StatusCells == {NaN, Str(Released), Str(ReleasedLower)}
FillCounts == {1, 2, 3}

\* rows that exercise the row filter
FilterRows ==
    { [BaseRow EXCEPT !.id = i, !.status = s, !.nfill = f] :
        i \in IdCells, s \in StatusCells, f \in FillCounts }
    \cup { [BaseRow EXCEPT !.title = NaN, !.nfill = 3] }

BudgetCells == {NaN, Num(0, 1), Num(20000000, 1)}
RevenueCells == {NaN, Num(0, 1), Num(1500000, 1)}
VoteCountCells == {NaN, Num(0, 1), Num(15, 1)}
VoteAverageCells == {NaN, Num(7, 1)}
TextCells == {NaN, Str(<<>>), Str(NoTagline), Str(NoDataMixed), Str(SomeText)}

\* rows that exercise the placeholder normalizer
NormalizerRows ==
    { [BaseRow EXCEPT !.budget = b, !.revenue = r] : b \in BudgetCells, r \in RevenueCells }
    \cup { [BaseRow EXCEPT !.id = Num(2, 1), !.vote_count = c, !.vote_average = a] :
             c \in VoteCountCells, a \in VoteAverageCells }
    \cup { [BaseRow EXCEPT !.tagline = t, !.overview = t, !.runtime = rt] :
             t \in TextCells, rt \in {Num(0, 1), Num(120, 1)} }

\* the tables of at most MaxRows rows drawn from RowSet, indexed 0, 1, ...
InputTables(RowSet) ==
    { Table(InputColumns(h),
            [i \in 1..Len(ps) |->
                [idx |-> i - 1, cells |-> MakeCells(ps[i], InputColumns(h))]]) :
        h \in BOOLEAN, ps \in UNION { [1..n -> RowSet] : n \in 0..MaxRows } }

KpiIdle ==
    /\ kdf = <<>>
    /\ kpis = <<>>
    /\ ranked = <<>>
    /\ directors = <<>>

ExtractIdle ==
    /\ ecol = <<>>
    /\ ekey = ""
    /\ eout = <<>>

CleanInit(RowSet) ==
    /\ pc = "cleaned"
    /\ \E T \in InputTables(RowSet) :
        /\ raw = T
        /\ cols = T.cols
        /\ df = T.rows
    /\ KpiIdle
    /\ ExtractIdle

----------------------------------------------------------------------------
(* The cleaning pipeline, one action per function, in the order of          *)
(* replace_unrealistic_values, removing_na_and_duplicates and               *)
(* finalize_dataframe.                                                      *)

Step(from, to, T) ==
    /\ pc = from
    /\ pc' = to
    /\ cols' = T.cols
    /\ df' = T.rows
    /\ UNCHANGED <<raw, kpiVars, extractVars>>

ReplaceZeroValues ==
    Step("cleaned", "zeros_replaced", replace_zero_values(Table(cols, df)))

ConvertBudgetToMillions ==
    Step("zeros_replaced", "converted", convert_budget_to_millions(Table(cols, df)))

CleanTextPlaceholders ==
    Step("converted", "text_cleaned", clean_text_placeholders(Table(cols, df)))

AdjustVoteAverage ==
    Step("text_cleaned", "normalized", adjust_vote_average(Table(cols, df)))

RemoveDuplicates ==
    Step("normalized", "deduplicated", remove_duplicates(Table(cols, df)))

DropRowsWithNaInCriticalColumns ==
    /\ CriticalColumns \subseteq Range(cols)
    /\ Step("deduplicated", "critical_kept",
            drop_rows_with_na_in_critical_columns(Table(cols, df), CriticalColumns))

KeepRowsWithMinNonNan ==
    Step("critical_kept", "min_kept", keep_rows_with_min_non_nan(Table(cols, df), MinNonNan))

FilterReleasedMovies ==
    Step("min_kept", "filtered", filter_released_movies(Table(cols, df)))

FinalizeDataframe ==
    Step("filtered", "final", finalize_dataframe(Table(cols, df)))

CleanNext ==
    \/ ReplaceZeroValues
    \/ ConvertBudgetToMillions
    \/ CleanTextPlaceholders
    \/ AdjustVoteAverage
    \/ RemoveDuplicates
    \/ DropRowsWithNaInCriticalColumns
    \/ KeepRowsWithMinNonNan
    \/ FilterReleasedMovies
    \/ FinalizeDataframe

Init == CleanInit(FilterRows)

Spec == Init /\ [][CleanNext]_vars

InitNormalize == CleanInit(NormalizerRows)

SpecNormalize == InitNormalize /\ [][CleanNext]_vars

----------------------------------------------------------------------------
(* Properties of the cleaning pipeline *)

Cell(i, c) == df[i].cells[c]

\* the input row a row of the table came from (valid until the index is reset)
RawCells(i) == raw.rows[df[i].idx + 1].cells

BeforeReset == {"converted", "text_cleaned", "normalized", "deduplicated",
                "critical_kept", "min_kept", "filtered"}

\* C1: in the finalized table no row has a missing id and no two rows share
\* an id.
C1_FinalIdsUniqueAndPresent ==
    pc = "final" =>
        /\ \A i \in 1..Len(df) : NotNa(Cell(i, "id"))
        /\ \A i, j \in 1..Len(df) : i # j => Cell(i, "id") # Cell(j, "id")

\* C1 witness: a finalized row whose id occurred twice in the input.
C1_Witness ==
    /\ pc = "final"
    /\ Len(df) >= 1
    /\ \E i, j \in 1..Len(raw.rows) :
        /\ i < j
        /\ raw.rows[i].cells["id"] = raw.rows[j].cells["id"]
        /\ raw.rows[i].cells["id"] = Cell(1, "id")

AfterNormalizer == {"normalized", "deduplicated", "critical_kept", "min_kept",
                    "filtered", "final"}

\* C2 as stated: once adjust_vote_average has run, every row whose vote_count
\* is zero or missing has a missing vote_average, up to the finalized table.
C2_VoteAverageMissingWhenCountZeroOrMissing ==
    pc \in AfterNormalizer =>
        \A i \in 1..Len(df) :
            (EqZero(Cell(i, "vote_count")) \/ IsNa(Cell(i, "vote_count")))
                => IsNa(Cell(i, "vote_average"))

\* C2 amended: once adjust_vote_average has run, every row whose vote_count
\* is zero has a missing vote_average, up to the finalized table (a row whose
\* vote_count is missing keeps its vote_average).
C2_VoteAverageMissingWhenCountZero ==
    pc \in AfterNormalizer =>
        \A i \in 1..Len(df) :
            EqZero(Cell(i, "vote_count")) => IsNa(Cell(i, "vote_average"))

\* C2 witness: a finalized row that came in with zero votes and a rating.
C2_Witness ==
    /\ pc = "final"
    /\ Len(raw.rows) = 1
    /\ Len(df) = 1
    /\ EqZero(raw.rows[1].cells["vote_count"])
    /\ NotNa(raw.rows[1].cells["vote_average"])
    /\ IsNa(Cell(1, "vote_average"))

\* C3 as stated: every row of the final table has at least 10 non-missing
\* values among the columns of the final table.
C3_TenNonMissingInFinalColumns ==
    pc = "final" => \A i \in 1..Len(df) : NonNaCount(df[i].cells, cols) >= MinNonNan

HadStatus == "status" \in Range(raw.cols)

\* C3 amended: every row of the final table had at least 10 non-missing
\* values counted over the columns before the status column was dropped: at
\* least 10 among the final columns when the input had no status column, and
\* at least 9 when it had one (the tenth being the status "Released").
C3_TenNonMissingBeforeStatusDrop ==
    pc \in {"filtered", "final"} =>
        \A i \in 1..Len(df) :
            NonNaCount(df[i].cells, cols) + (IF HadStatus THEN 1 ELSE 0) >= MinNonNan

\* C3 witness: a final row with exactly 9 non-missing values.
C3_Witness ==
    /\ pc = "final"
    /\ HadStatus
    /\ \E i \in 1..Len(df) : NonNaCount(df[i].cells, cols) = MinNonNan - 1

\* the k-th smallest element of a set of numbers
Nth(K, k) == CHOOSE x \in K : Cardinality({y \in K : y < x}) = k - 1

ReleasedAt == {i \in 1..Len(df) : Cell(i, "status") = Str(Released)}

\* C4: filter_released_movies keeps exactly the rows whose status is the
\* string "Released" (exact, case-sensitive), in their order and with their
\* other cells unchanged, and removes the status column; a table without a
\* status column is returned as it is.
C4_FilterReleasedExact ==
    [][(pc = "min_kept" /\ pc' = "filtered") =>
        IF "status" \in Range(cols)
        THEN /\ Range(cols') = Range(cols) \ {"status"}
             /\ Len(df') = Cardinality(ReleasedAt)
             /\ \A k \in 1..Len(df') :
                 /\ df'[k].idx = df[Nth(ReleasedAt, k)].idx
                 /\ DOMAIN df'[k].cells = Range(cols')
                 /\ \A c \in Range(cols') : df'[k].cells[c] = df[Nth(ReleasedAt, k)].cells[c]
        ELSE cols' = cols /\ df' = df]_vars

\* C4 witness: of two rows that reached the filter, the one with status
\* "released" was removed and the one with status "Released" was kept.
C4_Witness ==
    /\ pc = "filtered"
    /\ HadStatus
    /\ Len(raw.rows) = 2
    /\ Len(df) = 1
    /\ raw.rows[1].cells["status"] = Str(ReleasedLower)
    /\ raw.rows[2].cells["status"] = Str(Released)
    /\ raw.rows[1].cells["id"] = Num(1, 1)
    /\ raw.rows[2].cells["id"] = Num(2, 1)
    /\ \A i \in 1..2 : NonNaCount(raw.rows[i].cells, raw.cols) >= MinNonNan + 1
    /\ df[1].idx = 1

\* m is missing when the raw value was zero or missing, and raw / 1,000,000
\* otherwise
MusdOf(m, rawc) ==
    IF IsNa(rawc) \/ EqZero(rawc) THEN IsNa(m)
    ELSE IsNum(m) /\ m.n * Million * rawc.d = rawc.n * m.d

\* C5: after replace_zero_values and convert_budget_to_millions, budget_musd
\* is missing if the raw budget was zero or missing and raw budget / 1,000,000
\* otherwise, the same for revenue_musd, and the budget and revenue columns
\* are gone.
C5_MusdFromRaw ==
    pc \in BeforeReset =>
        /\ "budget" \notin Range(cols)
        /\ "revenue" \notin Range(cols)
        /\ {"budget_musd", "revenue_musd"} \subseteq Range(cols)
        /\ \A i \in 1..Len(df) :
            /\ DOMAIN df[i].cells = Range(cols)
            /\ MusdOf(Cell(i, "budget_musd"), RawCells(i)["budget"])
            /\ MusdOf(Cell(i, "revenue_musd"), RawCells(i)["revenue"])

\* C5 witness: a row with raw budget 0 and raw revenue 1,500,000 has a
\* missing budget_musd and revenue_musd 3/2.
C5_Witness ==
    /\ pc = "converted"
    /\ \E i \in 1..Len(df) :
        /\ EqZero(RawCells(i)["budget"])
        /\ RawCells(i)["revenue"] = Num(1500000, 1)
        /\ IsNa(Cell(i, "budget_musd"))
        /\ Cell(i, "revenue_musd") = Num(3, 2)

\* the input as the Row Filter receives it: the rows of raw, in input order,
\* after the Placeholder Normalizer
Normalized == replace_unrealistic_values(raw)

\* input row i is the first row with its id (missing ids count as one id, as
\* drop_duplicates counts them)
FirstOfItsId(i) ==
    \A j \in 1..(i - 1) : Normalized.rows[j].cells["id"] # Normalized.rows[i].cells["id"]

\* input row i has a title, at least 10 non-missing values and status
\* "Released"
PassesAsStated(i) ==
    /\ NotNa(Normalized.rows[i].cells["title"])
    /\ NonNaCount(Normalized.rows[i].cells, Normalized.cols) >= MinNonNan
    /\ HadStatus
    /\ Normalized.rows[i].cells["status"] = Str(Released)

\* input row i passes the filters that follow remove_duplicates: title and id
\* present, at least 10 non-missing values (status column included), and
\* status "Released" when there is a status column
PassesLaterFilters(i) ==
    /\ \A c \in CriticalColumns : NotNa(Normalized.rows[i].cells[c])
    /\ NonNaCount(Normalized.rows[i].cells, Normalized.cols) >= MinNonNan
    /\ HadStatus => Normalized.rows[i].cells["status"] = Str(Released)

\* the table consists exactly of the input rows numbered K, in input order:
\* by index label once the Row Filter is done, by cells in the final table
ConsistsOf(K) ==
    /\ Len(df) = Cardinality(K)
    /\ \A k \in 1..Len(df) :
        /\ pc = "filtered" => df[k].idx = Nth(K, k) - 1
        /\ DOMAIN df[k].cells = Range(cols)
        /\ \A c \in Range(cols) : Cell(k, c) = Normalized.rows[Nth(K, k)].cells[c]

\* C11 as stated: the final table consists exactly of the input rows that are
\* the first occurrence of their id and have a title, at least 10 non-missing
\* values and status "Released", in input order.
C11_FirstOccurrencesWithTitleTenValuesReleased ==
    pc \in {"filtered", "final"} =>
        ConsistsOf({i \in 1..Len(raw.rows) : FirstOfItsId(i) /\ PassesAsStated(i)})

\* C11 amended: the final table consists exactly of the input rows that are
\* the first occurrence of their id and have a title, a present id, at least
\* 10 non-missing values (status column included) and, when the table has a
\* status column, status "Released", in input order; so when the first
\* occurrence of an id fails a later filter, no row of the final table has
\* that id, even if a later duplicate would have passed.
C11_FirstOccurrencesPassingLaterFilters ==
    pc \in {"filtered", "final"} =>
        /\ ConsistsOf({i \in 1..Len(raw.rows) : FirstOfItsId(i) /\ PassesLaterFilters(i)})
        /\ \A i \in 1..Len(raw.rows) :
            (FirstOfItsId(i) /\ ~PassesLaterFilters(i)) =>
                \A k \in 1..Len(df) : Cell(k, "id") # Normalized.rows[i].cells["id"]

\* C11 witness: the first row with id 1 has status "released", a later row
\* with id 1 passes every later filter, and the final table is empty.
C11_Witness ==
    /\ pc = "final"
    /\ HadStatus
    /\ Len(raw.rows) = 2
    /\ raw.rows[1].cells["id"] = Num(1, 1)
    /\ raw.rows[2].cells["id"] = Num(1, 1)
    /\ raw.rows[1].cells["status"] = Str(ReleasedLower)
    /\ ~PassesLaterFilters(1)
    /\ PassesLaterFilters(2)
    /\ Len(df) = 0

----------------------------------------------------------------------------
(* KPI engine: scripts/kpi_analysis.py.  The rows handed to it are rows of *)
(* a finalized table: index 0, 1, ... and a present, unique id.            *)

\* adds column c, computed from the cells of the row, to every row
Assign(rows, c, F(_)) == MapRows(rows, LAMBDA cells : WithCell(cells, c, F(cells)))

calculate_profit(rows) ==
    Assign(rows, "profit", LAMBDA x : Minus(x["revenue_musd"], x["budget_musd"]))

RoiMinBudget == 10

\* mutant: a budget of exactly 10 is left out
calculate_roi_strict(rows) ==
    Assign(rows, "roi", LAMBDA x :
        IF GeInt(x["budget_musd"], RoiMinBudget + 1)
        THEN Quot(x["revenue_musd"], x["budget_musd"]) ELSE NaN)

calculate_roi(rows) ==
    Assign(rows, "roi", LAMBDA x :
        IF GeInt(x["budget_musd"], RoiMinBudget)
        THEN Quot(x["revenue_musd"], x["budget_musd"]) ELSE NaN)

\* The orders in which a sort can leave rows of equal key.  sort_values is
\* called with the default kind="quicksort", which does not promise to keep
\* them in their original order.
TieOrders == {"original", "reversed"}

\* df.sort_values(by=metric, ascending=ascending): rows with a key in key
\* order, rows of equal key in the order `tie`, then the rows whose key is
\* missing, in their original order (na_position="last")
sort_values(rows, metric, ascending, tie) ==
    LET n == Len(rows)
        key(i) == rows[i].cells[metric]
        Before(j, i) ==
            IF NotNa(key(j)) /\ NotNa(key(i))
            THEN IF NumEq(key(j), key(i))
                 THEN IF tie = "original" THEN j < i ELSE j > i
                 ELSE IF ascending THEN NumLt(key(j), key(i)) ELSE NumLt(key(i), key(j))
            ELSE IF NotNa(key(j)) THEN TRUE
            ELSE IF NotNa(key(i)) THEN FALSE
            ELSE j < i
        pos(i) == 1 + Cardinality({j \in 1..n : j # i /\ Before(j, i)})
    IN [k \in 1..n |-> rows[CHOOSE i \in 1..n : pos(i) = k]]

Min(a, b) == IF a < b THEN a ELSE b

\* df.head(n) for n >= 0
head(rows, n) == SubSeq(rows, 1, Min(n, Len(rows)))

\* mutant: the cut to top_n rows is forgotten
rank_movies_uncut(rows, metric, ascending, top_n, tie) ==
    sort_values(rows, metric, ascending, tie)

rank_movies(rows, metric, ascending, top_n, tie) ==
    head(sort_values(rows, metric, ascending, tie), top_n)

TopN == 10

\* df[df[c] >= k]
WhereGe(rows, c, k) == KeepAt(rows, LAMBDA i : GeInt(rows[i].cells[c], k))

RatedMinVotes == 10

get_kpis(rows, tie) ==
    LET d == calculate_roi(calculate_profit(rows))
    IN [higest_revenue |-> rank_movies(d, "revenue_musd", FALSE, TopN, tie),
        higest_budget |-> rank_movies(d, "budget_musd", FALSE, TopN, tie),
        higest_profit |-> rank_movies(d, "profit", FALSE, TopN, tie),
        lowest_profit |-> rank_movies(d, "profit", TRUE, TopN, tie),
        higest_roi |->
            rank_movies(WhereGe(d, "budget_musd", RoiMinBudget), "roi", FALSE, TopN, tie),
        lowest_roi |->
            rank_movies(WhereGe(d, "budget_musd", RoiMinBudget), "roi", TRUE, TopN, tie),
        most_voted |-> rank_movies(d, "vote_count", FALSE, TopN, tie),
        highest_rated |->
            rank_movies(WhereGe(d, "vote_count", RatedMinVotes), "vote_average", FALSE, TopN, tie),
        lowest_rated |->
            rank_movies(WhereGe(d, "vote_count", RatedMinVotes), "vote_average", TRUE, TopN, tie),
        most_popular |-> rank_movies(d, "popularity", FALSE, TopN, tie)]

----------------------------------------------------------------------------
(* Tables handed to the KPI engine *)

MaxKpiRows == 2
MaxTopN == 3

KpiColumns ==
    <<"id", "budget_musd", "revenue_musd", "vote_count", "vote_average", "popularity",
      "director">>

KpiBase ==
    [budget_musd |-> Num(20, 1), revenue_musd |-> Num(40, 1), vote_count |-> Num(15, 1),
     vote_average |-> Num(7, 1), popularity |-> Num(3, 1), director |-> Str(<<"A">>)]

KBudgets == <<NaN, Num(5, 1), Num(10, 1), Num(20, 1)>>
KRevenues == <<NaN, Num(20, 1)>>

KpiRows ==
    { [KpiBase EXCEPT !.budget_musd = b, !.revenue_musd = r] :
        b \in Range(KBudgets), r \in Range(KRevenues) }
    \cup { [KpiBase EXCEPT !.vote_count = c, !.vote_average = Num(6, 1)] :
             c \in {NaN, Num(5, 1)} }

\* a finalized table: row i has index i - 1 and id i
KpiTable(ps) ==
    [i \in 1..Len(ps) |->
        [idx |-> i - 1,
         cells |-> [c \in Range(KpiColumns) |-> IF c = "id" THEN Num(i, 1) ELSE ps[i][c]]]]

\* a table one row longer than a top-10 view
LongTable(k) ==
    KpiTable([i \in 1..(TopN + 1) |->
        [KpiBase EXCEPT !.budget_musd = KBudgets[((i + k) % Len(KBudgets)) + 1],
                        !.revenue_musd = KRevenues[(((i \div 2) + k) % Len(KRevenues)) + 1],
                        !.popularity = Num((i * 3) % 7, 1)]])

KpiTables(RowSet) ==
    { KpiTable(ps) : ps \in UNION { [1..n -> RowSet] : n \in 0..MaxKpiRows } }

CleanIdle ==
    /\ pc = "idle"
    /\ cols = <<>>
    /\ df = <<>>
    /\ raw = <<>>

InitKpi ==
    /\ kdf \in KpiTables(KpiRows) \cup { LongTable(k) : k \in 0..(Len(KBudgets) - 1) }
    /\ kpis = <<>>
    /\ ranked = <<>>
    /\ directors = <<>>
    /\ CleanIdle
    /\ ExtractIdle

RankMetrics == {"revenue_musd", "budget_musd", "vote_count", "vote_average", "popularity"}

GetKpis ==
    /\ kpis = <<>>
    /\ \E tie \in TieOrders : kpis' = get_kpis(kdf, tie)
    /\ UNCHANGED <<kdf, ranked, directors, cleanVars, extractVars>>

\* one call of rank_movies per run
RankMovies ==
    /\ ranked = <<>>
    /\ \E metric \in RankMetrics, ascending \in BOOLEAN, top_n \in 0..MaxTopN,
          tie \in TieOrders :
        ranked' = [metric |-> metric, ascending |-> ascending, top_n |-> top_n,
                   result |-> rank_movies(kdf, metric, ascending, top_n, tie)]
    /\ UNCHANGED <<kdf, kpis, directors, cleanVars, extractVars>>

KpiNext == GetKpis \/ RankMovies

SpecKpi == InitKpi /\ [][KpiNext]_vars

----------------------------------------------------------------------------
(* Properties of get_kpis and rank_movies *)

\* roi is revenue_musd / budget_musd where budget_musd >= 10 and the revenue
\* is present, and missing everywhere else
RoiOf(x) ==
    IF GeInt(x["budget_musd"], RoiMinBudget) /\ NotNa(x["revenue_musd"])
    THEN /\ IsNum(x["roi"])
         /\ x["roi"].n * x["budget_musd"].n * x["revenue_musd"].d
                = x["revenue_musd"].n * x["budget_musd"].d * x["roi"].d
    ELSE IsNa(x["roi"])

RoiViews == {"higest_roi", "lowest_roi"}

\* C6: a row has a non-missing roi, equal to revenue_musd / budget_musd, only
\* when its budget_musd is present and >= 10; a row whose budget_musd is
\* missing or below 10 has a missing roi; and every row of the highest-ROI
\* and lowest-ROI views has budget_musd >= 10.
C6_RoiNeedsBudgetOfTen ==
    kpis # <<>> =>
        /\ \A v \in DOMAIN kpis : \A i \in 1..Len(kpis[v]) : RoiOf(kpis[v][i].cells)
        /\ \A v \in RoiViews : \A i \in 1..Len(kpis[v]) :
            GeInt(kpis[v][i].cells["budget_musd"], RoiMinBudget)

\* C6 witness: budget missing and revenue 20 gives a missing roi, and a row
\* with budget exactly 10 and revenue 20 is in the highest-ROI view with roi 2.
C6_Witness ==
    /\ kpis # <<>>
    /\ \E i \in 1..Len(kpis.higest_revenue) :
        LET x == kpis.higest_revenue[i].cells
        IN IsNa(x["budget_musd"]) /\ x["revenue_musd"] = Num(20, 1) /\ IsNa(x["roi"])
    /\ \E i \in 1..Len(kpis.higest_roi) :
        LET x == kpis.higest_roi[i].cells
        IN x["budget_musd"] = Num(10, 1) /\ x["roi"] = Num(2, 1)
    /\ Len(kpis.higest_roi) < Len(kpis.higest_revenue)

\* C7: rank_movies returns the first N rows of the stable sort of the table
\* by the metric in the given direction: rows of equal metric in their
\* original order.
C7_RankIsPrefixOfStableSort ==
    ranked # <<>> =>
        ranked.result =
            head(sort_values(kdf, ranked.metric, ranked.ascending, "original"), ranked.top_n)

TenViews ==
    {"higest_revenue", "higest_budget", "higest_profit", "lowest_profit", "higest_roi",
     "lowest_roi", "most_voted", "highest_rated", "lowest_rated", "most_popular"}

ViewMetric(v) ==
    CASE v = "higest_revenue" -> "revenue_musd"
      [] v = "higest_budget" -> "budget_musd"
      [] v \in {"higest_profit", "lowest_profit"} -> "profit"
      [] v \in RoiViews -> "roi"
      [] v = "most_voted" -> "vote_count"
      [] v \in {"highest_rated", "lowest_rated"} -> "vote_average"
      [] v = "most_popular" -> "popularity"

ViewAscending(v) == v \in {"lowest_profit", "lowest_roi", "lowest_rated"}

\* key a must come strictly before key b in a ranking
StrictlyBefore(a, b, ascending) ==
    IF NotNa(a) /\ NotNa(b) THEN (IF ascending THEN NumLt(a, b) ELSE NumLt(b, a))
    ELSE NotNa(a) /\ IsNa(b)

IsRanked(view, metric, ascending) ==
    \A i, j \in 1..Len(view) :
        i < j => ~StrictlyBefore(view[j].cells[metric], view[i].cells[metric], ascending)

\* the rows of the table a view ranks, with profit and roi
Eligible(v) ==
    LET d == calculate_roi(calculate_profit(kdf))
    IN IF v \in RoiViews THEN WhereGe(d, "budget_musd", RoiMinBudget)
       ELSE IF v \in {"highest_rated", "lowest_rated"} THEN WhereGe(d, "vote_count", RatedMinVotes)
       ELSE d

\* view is a ranked slice of at most TopN of the rows `from`
IsTopSlice(view, from, metric, ascending) ==
    /\ Len(view) = Min(TopN, Len(from))
    /\ Range(view) \subseteq Range(from)
    /\ \A i, j \in 1..Len(view) : i # j => view[i].idx # view[j].idx
    /\ IsRanked(view, metric, ascending)
    /\ \A r \in Range(from) \ Range(view) : \A i \in 1..Len(view) :
        ~StrictlyBefore(r.cells[metric], view[i].cells[metric], ascending)

\* some further view, not among the ten, ranks by metric in ascending order
HasLowestView(metric) ==
    \E v \in DOMAIN kpis \ TenViews : IsTopSlice(kpis[v], Eligible(v), metric, TRUE)

\* C8 as stated: get_kpis returns twelve views, among them lowest revenue and
\* lowest budget, each a ranked slice of at most 10 rows.
C8_TwelveViews ==
    kpis # <<>> =>
        /\ TenViews \subseteq DOMAIN kpis
        /\ HasLowestView("revenue_musd")
        /\ HasLowestView("budget_musd")
        /\ \A v \in DOMAIN kpis : Len(kpis[v]) <= TopN

\* C8 amended: get_kpis returns exactly ten views: highest revenue, highest
\* budget, highest profit, lowest profit, highest ROI, lowest ROI, most voted,
\* highest rated, lowest rated and most popular (no lowest-revenue and no
\* lowest-budget view); each is a ranked slice of at most 10 rows.
C8_TenViews ==
    kpis # <<>> =>
        /\ DOMAIN kpis = TenViews
        /\ \A v \in TenViews :
            /\ Len(kpis[v]) <= TopN
            /\ IsTopSlice(kpis[v], Eligible(v), ViewMetric(v), ViewAscending(v))

\* C8 witness: of 11 rows the highest-revenue view holds 10, and the
\* highest-ROI view fewer.
C8_Witness ==
    /\ kpis # <<>>
    /\ Len(kdf) = TopN + 1
    /\ Len(kpis.higest_revenue) = TopN
    /\ Len(kpis.higest_roi) \in 1..(TopN - 1)

----------------------------------------------------------------------------
(* director_success *)

\* s.split("|"): the pieces of s between the separators ("" gives one empty
\* piece)
Split(s, sep) ==
    LET F[i \in 0..Len(s)] ==
            IF i = 0 THEN << <<>> >>
            ELSE IF s[i] = sep THEN Append(F[i - 1], <<>>)
            ELSE [F[i - 1] EXCEPT ![Len(F[i - 1])] = Append(@, s[i])]
    IN F[Len(s)]

\* df["director"].str.split("|"): a list for a string, NaN for anything else
SplitCell(c) == IF c.t = "str" THEN Split(c.s, "|") ELSE <<>>

\* df.assign(director=...).explode("director"): one row per piece, and one
\* row with a missing director for a row whose director is missing
Explode(rows) ==
    LET F[i \in 0..Len(rows)] ==
            IF i = 0 THEN <<>>
            ELSE LET parts == SplitCell(rows[i].cells["director"])
                 IN IF rows[i].cells["director"].t = "str"
                    THEN F[i - 1] \o [k \in 1..Len(parts) |->
                            [rows[i] EXCEPT !.cells["director"] = Str(parts[k])]]
                    ELSE Append(F[i - 1], [rows[i] EXCEPT !.cells["director"] = NaN])
    IN F[Len(rows)]

CodePoint(c) == CASE c = "A" -> 65 [] c = "B" -> 66 [] c = "|" -> 124 [] OTHER -> 0

\* a < b for strings
StrLt(a, b) ==
    \E k \in 1..(Len(b)) :
        /\ \A j \in 1..(k - 1) : j <= Len(a) /\ a[j] = b[j]
        /\ k - 1 <= Len(a)
        /\ (k > Len(a) \/ CodePoint(a[k]) < CodePoint(b[k]))

Add(a, b) == Frac(a.n * b.d + b.n * a.d, a.d * b.d)

\* Series.sum(): missing values are skipped, the empty sum is 0
SumCells(rows, c) ==
    LET F[i \in 0..Len(rows)] ==
            IF i = 0 THEN Num(0, 1)
            ELSE IF IsNum(rows[i].cells[c]) THEN Add(F[i - 1], rows[i].cells[c])
            ELSE F[i - 1]
    IN F[Len(rows)]

\* Series.count(): the number of values that are not missing
CountCells(rows, c) == Cardinality({i \in 1..Len(rows) : NotNa(rows[i].cells[c])})

\* Series.mean(): missing when no value is present
MeanCells(rows, c) ==
    IF CountCells(rows, c) = 0 THEN NaN
    ELSE LET t == SumCells(rows, c) IN Frac(t.n, t.d * CountCells(rows, c))

\* groupby("director").agg(...): one row per director that is not missing,
\* labelled by the director, in the order of the labels
GroupByDirector(exploded) ==
    LET names == {exploded[i].cells["director"].s :
                    i \in {j \in 1..Len(exploded) : exploded[j].cells["director"].t = "str"}}
        rank(d) == 1 + Cardinality({e \in names : StrLt(e, d)})
        group(d) == KeepAt(exploded, LAMBDA i : exploded[i].cells["director"] = Str(d))
    IN [k \in 1..Cardinality(names) |->
          LET d == CHOOSE e \in names : rank(e) = k
          IN [idx |-> d,
              cells |-> [total_movies_directed |-> Num(CountCells(group(d), "id"), 1),
                         total_revenue_musd |-> SumCells(group(d), "revenue_musd"),
                         mean_rating |-> MeanCells(group(d), "vote_average")]]]

director_success(rows, top_n, tie) ==
    head(sort_values(GroupByDirector(Explode(rows)), "total_revenue_musd", FALSE, tie), top_n)

MaxDirRows == 2

DirectorCells ==
    {NaN, Str(<<>>), Str(<<"A">>), Str(<<"B">>), Str(<<"A", "|", "B">>),
     Str(<<"B", "|", "A">>), Str(<<"A", "|", "A">>)}

DirectorRows ==
    { [KpiBase EXCEPT !.director = d, !.revenue_musd = r] :
        d \in DirectorCells, r \in {NaN, Num(20, 1), Num(30, 1)} }

InitDirector ==
    /\ kdf \in { KpiTable(ps) : ps \in UNION { [1..n -> DirectorRows] : n \in 0..MaxDirRows } }
    /\ kpis = <<>>
    /\ ranked = <<>>
    /\ directors = <<>>
    /\ CleanIdle
    /\ ExtractIdle

DirectorSuccess ==
    /\ directors = <<>>
    /\ \E top_n \in 0..MaxTopN, tie \in TieOrders :
        directors' = [top_n |-> top_n, result |-> director_success(kdf, top_n, tie)]
    /\ UNCHANGED <<kdf, kpis, ranked, cleanVars, extractVars>>

DirectorNext == DirectorSuccess

SpecDirector == InitDirector /\ [][DirectorNext]_vars

----------------------------------------------------------------------------
(* Properties of director_success *)

\* the individual director names of row i
NamesOf(i) == Range(SplitCell(kdf[i].cells["director"]))

AllNames == UNION { NamesOf(i) : i \in 1..Len(kdf) }

\* how many times d is named in the director field of row i
TimesNamed(i, d) ==
    LET parts == SplitCell(kdf[i].cells["director"])
    IN Cardinality({k \in 1..Len(parts) : parts[k] = d})

\* the sum over the rows of weight(i) * revenue_musd of row i, a missing
\* revenue counting as 0
WeightedRevenue(weight(_)) ==
    LET F[i \in 0..Len(kdf)] ==
            IF i = 0 THEN Num(0, 1)
            ELSE LET r == kdf[i].cells["revenue_musd"]
                 IN IF IsNum(r) THEN Add(F[i - 1], Frac(weight(i) * r.n, r.d)) ELSE F[i - 1]
    IN F[Len(kdf)]

\* the result is in descending order of total revenue, holds at most N
\* directors, each once, and holds every director when N allows it
DirectorsRanked ==
    LET res == directors.result
    IN /\ Len(res) = Min(directors.top_n, Cardinality(AllNames))
       /\ \A k \in 1..Len(res) : res[k].idx \in AllNames
       /\ \A j, k \in 1..Len(res) : j # k => res[j].idx # res[k].idx
       /\ IsRanked(res, "total_revenue_musd", FALSE)

\* C9: each director d has movie count equal to the number of rows
\* whose director list contains d and total revenue equal to the sum of
\* revenue_musd over exactly those rows; the result is in descending order of
\* total revenue and holds at most N directors.
C9_CountsRowsContainingDirector ==
    directors # <<>> =>
        /\ DirectorsRanked
        /\ \A k \in 1..Len(directors.result) :
            LET e == directors.result[k]
            IN /\ e.cells["total_movies_directed"]
                    = Num(Cardinality({i \in 1..Len(kdf) : e.idx \in NamesOf(i)}), 1)
               /\ e.cells["total_revenue_musd"]
                    = WeightedRevenue(LAMBDA i : IF e.idx \in NamesOf(i) THEN 1 ELSE 0)

\* the sum of weight(i) over the rows
Total(weight(_)) ==
    LET F[i \in 0..Len(kdf)] == IF i = 0 THEN 0 ELSE F[i - 1] + weight(i)
    IN F[Len(kdf)]

\* What director_success computes: each director d has movie count equal to
\* the number of times d is named over all rows' director lists and total
\* revenue equal to the sum of revenue_musd over those namings (a missing
\* revenue counting as 0), so a row counts once per naming: once toward each
\* co-director, and twice toward a name its list holds twice.
DirectorCountsNamings ==
    directors # <<>> =>
        /\ DirectorsRanked
        /\ \A k \in 1..Len(directors.result) :
            LET e == directors.result[k]
            IN /\ e.cells["total_movies_directed"]
                    = Num(Total(LAMBDA i : TimesNamed(i, e.idx)), 1)
               /\ e.cells["total_revenue_musd"]
                    = WeightedRevenue(LAMBDA i : TimesNamed(i, e.idx))

\* a movie by "A|B" and a movie by "A": A has two movies and their revenue,
\* B one movie, and B is cut by N = 1
DirectorExample ==
    /\ directors # <<>>
    /\ Len(kdf) = 2
    /\ kdf[1].cells["director"] = Str(<<"A", "|", "B">>)
    /\ kdf[2].cells["director"] = Str(<<"A">>)
    /\ kdf[1].cells["revenue_musd"] = Num(20, 1)
    /\ kdf[2].cells["revenue_musd"] = Num(30, 1)
    /\ directors.top_n = 1
    /\ Len(directors.result) = 1
    /\ directors.result[1].idx = <<"A">>
    /\ directors.result[1].cells["total_movies_directed"] = Num(2, 1)
    /\ directors.result[1].cells["total_revenue_musd"] = Num(50, 1)

----------------------------------------------------------------------------
(* Field Extractor: extract_json_field.  A nested cell is an object        *)
(* [t |-> "dict", m |-> a function from its keys to strings] or a list     *)
(* [t |-> "list", l |-> a sequence of such functions].                     *)

Dict(m) == [t |-> "dict", m |-> m]
List(l) == [t |-> "list", l |-> l]

\* sep.join(parts)
Join(parts, sep) ==
    LET F[i \in 0..Len(parts)] ==
            IF i = 0 THEN <<>>
            ELSE IF i = 1 THEN parts[1]
            ELSE F[i - 1] \o <<sep>> \o parts[i]
    IN F[Len(parts)]

\* mutant: objects that lack the key are not skipped (item.get(key, ""))
extract_unfiltered(x, key, join_with) ==
    IF x.t = "dict" /\ key \in DOMAIN x.m THEN Str(x.m[key])
    ELSE IF x.t = "list"
    THEN Str(Join([i \in 1..Len(x.l) |->
                      IF key \in DOMAIN x.l[i] THEN x.l[i][key] ELSE <<>>], join_with))
    ELSE NaN

\* the inner function extract(x) of extract_json_field
extract(x, key, join_with) ==
    IF x.t = "dict" /\ key \in DOMAIN x.m THEN Str(x.m[key])
    ELSE IF x.t = "list"
    THEN LET items == SelectSeq(x.l, LAMBDA item : key \in DOMAIN item)
         IN Str(Join([i \in 1..Len(items) |-> items[i][key]], join_with))
    ELSE NaN

\* df[col] = df[col].apply(extract)
extract_json_field(column, key, join_with) ==
    [i \in 1..Len(column) |-> extract(column[i], key, join_with)]

MaxListLen == 2
MaxColLen == 1

ExtractKeys == {"name", "english_name"}

KeyValues(k) == IF k = "name" THEN {<<"A">>, <<"B">>} ELSE {<<"E">>}

\* the objects: each key is absent or holds one of its values
Objects ==
    UNION { [K -> UNION { KeyValues(k) : k \in K }] : K \in SUBSET ExtractKeys }

WellFormed(o) == \A k \in DOMAIN o : o[k] \in KeyValues(k)

NestedCells ==
    { Dict(o) : o \in {x \in Objects : WellFormed(x)} }
    \cup { List(l) : l \in UNION { [1..n -> {x \in Objects : WellFormed(x)}] :
                                     n \in 0..MaxListLen } }
    \cup {NaN, Str(<<"A">>), Num(5, 1)}

InitExtract ==
    /\ pc = "nested"
    /\ ecol \in UNION { [1..n -> NestedCells] : n \in 0..MaxColLen }
    /\ ekey \in ExtractKeys
    /\ eout = <<>>
    /\ cols = <<>>
    /\ df = <<>>
    /\ raw = <<>>
    /\ KpiIdle

ExtractJsonField ==
    /\ pc = "nested"
    /\ pc' = "extracted"
    /\ eout' = extract_json_field(ecol, ekey, "|")
    /\ UNCHANGED <<ecol, ekey, cols, df, raw, kpiVars>>

ExtractNext == ExtractJsonField

SpecExtract == InitExtract /\ [][ExtractNext]_vars

\* the values of key k of the objects of list l that contain k, in list order
ValuesOf(l, k) ==
    LET F[i \in 0..Len(l)] ==
            IF i = 0 THEN <<>>
            ELSE IF k \in DOMAIN l[i] THEN Append(F[i - 1], l[i][k]) ELSE F[i - 1]
    IN F[Len(l)]

\* C10: for every cell, with extraction key k: a single object containing k
\* gives its value for k; a list of objects gives the values of k of the
\* objects that contain k, in list order, joined with "|"; every other cell,
\* a single object that lacks k included, gives the missing marker.
C10_ExtractPerCell ==
    pc = "extracted" =>
        /\ Len(eout) = Len(ecol)
        /\ \A i \in 1..Len(ecol) :
            LET x == ecol[i]
                y == eout[i]
            IN IF x.t = "dict" /\ ekey \in DOMAIN x.m THEN y = Str(x.m[ekey])
               ELSE IF x.t = "list"
               THEN /\ y.t = "str"
                    /\ IF ValuesOf(x.l, ekey) = <<>> THEN y.s = <<>>
                       ELSE Split(y.s, "|") = ValuesOf(x.l, ekey)
               ELSE y = NaN

\* C10 witness: the list [{name: "A"}, {name: "B"}] extracts to "A|B".
C10_Witness ==
    /\ pc = "extracted"
    /\ Len(ecol) = 1
    /\ ekey = "name"
    /\ ecol[1].t = "list"
    /\ Len(ecol[1].l) = 2
    /\ \A i \in 1..2 : DOMAIN ecol[1].l[i] = {"name"}
    /\ ecol[1].l[1]["name"] = <<"A">>
    /\ ecol[1].l[2]["name"] = <<"B">>
    /\ eout[1] = Str(<<"A", "|", "B">>)

====
